---- MODULE Spec2Model ----
(***************************************************************************)
(* Model of the interactive PTY overlay session of                         *)
(* packages/coding-agent/src/tools/run-interactive-term.ts.                *)
(*                                                                         *)
(* One session is the factory passed to context.ui.custom together with    *)
(* the callbacks it registers.  Every callback (PTY data, PTY exit,        *)
(* timeout timer, abort listener, keystroke, xterm write callback,         *)
(* component dispose) is one atomic action: the event loop never           *)
(* interleaves two callbacks, but it may run them in any order.            *)
(***************************************************************************)
EXTENDS Integers, Sequences, FiniteSets, TLC

\* ---------------------------------------------------------------------
\* Bounds of the model
\* ---------------------------------------------------------------------
MaxData == 2
MaxInputs == 2
TermRows == 5
TimeoutSlack == 3
MaxDen == 3
MaxBufLen == 6
CapSlack == 1
MaxGlyphs == 3
MaxWidth == 4
MaxHostRows == 12
MaxViewportY == 2
MaxHostCols == 26
MaxEntryLen == 5
MaxExtraLen == 2

\* OutputSink: number of push calls in one run, and the largest
\* spillThreshold tried
MaxPushes == 3
MaxThreshold == 2

\* ---------------------------------------------------------------------
\* Program constants
\* ---------------------------------------------------------------------
MAX_TIMEOUT_SECONDS == 3600
SCROLLBACK_MAX_LINES == 2000
XTERM_SCROLLBACK == 2000
SCREEN_SNAPSHOT_MAX_LINES == 200
SCREEN_SNAPSHOT_MAX_BYTES == 40 * 1024
CAPTURE_MAX_BYTES == 50 * 1024

\* exitCode: number | null.  null is modelled by a value outside the codes.
NULL == -1
ExitCodes == {0, 1, 137}

\* Output chunks the child may print (one complete line each) and the
\* keystrokes the host may deliver; "esc" is the data matchesKey accepts
\* as "escape".
Chunks == {"a", "b"}
Keys == {"esc", "x"}
SpawnFailure == "Failed to spawn PTY: msg"
FLUSH == "<flush>"

VARIABLES
    pc,              \* "entry" | "invalid" | "init" | "session" | "failed": position of execute and the factory
    outcome,         \* what execute did: "pending" | "returned" | "ToolAbortError" | "ToolError" | "rethrown"
    params,          \* what execute was called with: UI, platform, cwd, timeout
    hasTimeout,      \* timeoutMs !== undefined
    sigPresent,      \* signal !== undefined
    sigAborted,      \* signal.aborted
    cState,          \* component #state
    cExitCode,       \* component #exitCode
    dismissedByUser, \* let dismissedByUser
    timedOut,        \* let timedOut
    finished,        \* let finished
    pty,             \* pty !== null (the handle is held)
    disposables,     \* registrations held in disposables[]
    child,           \* "none" | "alive" | "dead": the OS process
    childCode,       \* the exit code the PTY will report
    killSent,        \* a signal reached the live child
    exitDelivered,   \* the PTY exit event has been delivered to onExit
    exitSnap,        \* consts captured by the onExit closure
    termQueue,       \* xterm write buffer: chunks and flush markers not yet parsed
    termBuf,         \* xterm buffer: lines parsed so far
    disposed,        \* component.dispose() has run
    results,         \* results passed to done(), in order
    kills,           \* signals passed to pty.kill, in order
    writes,          \* data passed to pty.write, in order
    appended,        \* chunks passed to appendOutput by onData, in order
    inputLog,        \* keystrokes handled by handleInput, with what they caused
    timerFired,      \* the timeout callback has run
    abortKilled,     \* the abort handler called pty.kill on a live child
    abortedAtStart,  \* signal.aborted was already true when the factory ran
    lastTurnData,    \* a chunk arrived after the child died, ahead of the exit event
    finalRender,     \* tui.requestRender() was called after setComplete
    doneAt,          \* the overlay state and render request seen by the call of done()
    call             \* a call of one of the pure functions: its arguments and result

vars == <<pc, outcome, hasTimeout, sigPresent, sigAborted, cState, cExitCode,
          dismissedByUser, timedOut, finished, pty, disposables, child,
          childCode, killSent, exitDelivered, exitSnap, termQueue, termBuf,
          disposed, results, kills, writes, appended, inputLog, timerFired,
          abortKilled, abortedAtStart, lastTurnData, params, finalRender,
          doneAt, call>>

\* Everything but the function call under study.
sessVars == <<pc, outcome, hasTimeout, sigPresent, sigAborted, cState,
              cExitCode, dismissedByUser, timedOut, finished, pty,
              disposables, child, childCode, killSent, exitDelivered,
              exitSnap, termQueue, termBuf, disposed, results, kills, writes,
              appended, inputLog, timerFired, abortKilled, abortedAtStart,
              lastTurnData, params, finalRender, doneAt>>

\* Variables grouped by owner, for UNCHANGED clauses.
compVars == <<cState, cExitCode, finalRender>>
flagVars == <<dismissedByUser, timedOut>>
finVars == <<finished, disposables, results, doneAt>>
ptyVars == <<pty, kills, killSent>>
procVars == <<child, childCode, exitDelivered>>
termVars == <<termQueue, termBuf>>
cfgVars == <<hasTimeout, sigPresent, params, call>>
ghostVars == <<lastTurnData>>
sigVars == <<sigAborted, abortKilled, abortedAtStart>>

\* ---------------------------------------------------------------------
\* Pure helpers
\* ---------------------------------------------------------------------
Max(a, b) == IF a > b THEN a ELSE b
Min(a, b) == IF a < b THEN a ELSE b

\* lines.slice(from) for a 1-based first index
Tail_From(s, from) == SubSeq(s, from, Len(s))

IsBlank(l) == l = ""

RECURSIVE TrimLeading(_)
TrimLeading(ls) ==
    IF Len(ls) > 0 /\ IsBlank(ls[1]) THEN TrimLeading(Tail(ls)) ELSE ls

\* Trailing trim with an if in place of the while
TrimTrailing_Once(ls) ==
    IF Len(ls) > 0 /\ IsBlank(ls[Len(ls)])
    THEN SubSeq(ls, 1, Len(ls) - 1)
    ELSE ls

RECURSIVE TrimTrailing(_)
TrimTrailing(ls) ==
    IF Len(ls) > 0 /\ IsBlank(ls[Len(ls)])
    THEN TrimTrailing(SubSeq(ls, 1, Len(ls) - 1))
    ELSE ls

\* The rows of buffer.active after the lines of buf were written, each
\* ended by a newline: the lines, the blank row the cursor is left on, and
\* blank rows below it while the viewport is not full; xterm keeps the
\* viewport and the newest XTERM_SCROLLBACK rows above it.
BufferRows(buf) ==
    LET all == buf \o [i \in 1..Max(1, TermRows - Len(buf)) |-> ""]
        keep == TermRows + XTERM_SCROLLBACK
    IN IF Len(all) > keep THEN Tail_From(all, Len(all) - keep + 1) ELSE all

\* text.replace(/\s+$/u, "")
RECURSIVE RTrim(_)
RTrim(text) ==
    IF Len(text) > 0 /\ SubSeq(text, Len(text), Len(text)) = " "
    THEN RTrim(SubSeq(text, 1, Len(text) - 1))
    ELSE text

\* buf.getLine(y): line.translateToString(true).replace(/\s+$/u, "") for
\* the 0-based rows startY..endY
RowTexts(buf, startY, endY) ==
    [i \in 1..(endY - startY + 1) |-> RTrim(BufferRows(buf)[startY + i])]

\* buf.baseY + term.rows
TotalLines(buf) == Len(BufferRows(buf))

\* getScrollback that leaves the trailing blank rows in place
GetScrollback_NoTrailingTrim(buf, maxLines) ==
    LET totalLines == TotalLines(buf)
        startY == Max(0, totalLines - maxLines)
    IN [text |-> TrimLeading(RowTexts(buf, startY, totalLines - 1)),
        truncated |-> totalLines > maxLines]

\* getScrollback(maxLines).  The one-element sets name each array the
\* loops leave behind, so that it is computed once.
GetScrollback(buf, maxLines) ==
    LET totalLines == TotalLines(buf)
        truncated == totalLines > maxLines
        startY == Max(0, totalLines - maxLines)
    IN CHOOSE r \in
           {[text |-> TrimTrailing(shifted), truncated |-> truncated]
              : shifted \in {TrimLeading(lines)
                               : lines \in {RowTexts(buf, startY, totalLines - 1)}}}
           : TRUE

\* #getPlainLines that reads the oldest rows of the buffer
GetPlainLines_Head(buf, maxLines) ==
    IF maxLines <= 0 THEN <<>>
    ELSE LET lastAbsY == Min(TotalLines(buf), maxLines) - 1
         IN CHOOSE r \in
                {Tail_From(out, Max(1, Len(out) - maxLines + 1))
                   : out \in {TrimTrailing(TrimLeading(lines))
                               : lines \in {RowTexts(buf, 0, lastAbsY)}}}
                : TRUE

\* #getPlainLines(maxLines)
GetPlainLines(buf, maxLines) ==
    IF maxLines <= 0 THEN <<>>
    ELSE LET lastAbsY == Max(0, TotalLines(buf) - 1)
             startAbsY == Max(0, lastAbsY - maxLines + 1)
         IN CHOOSE r \in
                {Tail_From(out, Max(1, Len(out) - maxLines + 1))
                   : out \in {TrimTrailing(shifted)
                               : shifted \in {TrimLeading(lines)
                                   : lines \in {RowTexts(buf, startAbsY, lastAbsY)}}}}
                : TRUE

\* getSnapshot(maxLines): the lines that are joined with "\n"
GetSnapshot(buf, maxLines) == GetPlainLines(buf, maxLines)

RECURSIVE Bytes(_)
Bytes(ls) ==
    IF Len(ls) = 0 THEN 0
    ELSE Len(ls[1]) + (IF Len(ls) > 1 THEN 1 ELSE 0) + Bytes(Tail(ls))

\* truncateTail(text, {maxLines, maxBytes}).content: the longest tail of
\* the lines within both budgets.
RECURSIVE TruncateTail(_, _, _)
TruncateTail(ls, maxLines, maxBytes) ==
    IF Len(ls) > maxLines \/ Bytes(ls) > maxBytes
    THEN TruncateTail(Tail(ls), maxLines, maxBytes)
    ELSE ls

\* setComplete(options): the new #state
SetCompleteState(tOut, dismissed) ==
    IF tOut THEN "timed_out"
    ELSE IF dismissed THEN "killed"
    ELSE "complete"

\* matchesKey(data, "escape") || matchesKey(data, "esc")
IsEscape(data) == data = "esc"

Result(code, sb, snap, tOut, dismissed, trunc, aborted) ==
    [exitCode |-> code, scrollback |-> sb, screenSnapshot |-> snap,
     timedOut |-> tOut, dismissedByUser |-> dismissed,
     scrollbackTruncated |-> trunc, abortedBySignal |-> aborted]

NoSnap == [set |-> FALSE, exitCode |-> NULL, abortedBySignal |-> FALSE]

NoDone == [set |-> FALSE, state |-> "running", rendered |-> FALSE]

NoCall == [op |-> "none"]

\* ---------------------------------------------------------------------
\* Closures of the session factory
\* ---------------------------------------------------------------------

\* finish(result) that forgets to set the finished flag
Finish_NoFlag(result) ==
    IF finished THEN UNCHANGED finVars
    ELSE /\ finished' = finished
         /\ disposables' = {}
         /\ results' = Append(results, result)
         /\ doneAt' = [set |-> TRUE, state |-> cState, rendered |-> finalRender]

\* finish(result).  done(result) is called with the overlay as the
\* statements before the call of finish left it.
Finish(result) ==
    IF finished THEN UNCHANGED finVars
    ELSE /\ finished' = TRUE
         /\ disposables' = {}
         /\ results' = Append(results, result)
         /\ doneAt' = [set |-> TRUE, state |-> cState, rendered |-> finalRender]

\* killPty that leaves the handle in place
KillPty_KeepsHandle(sig) ==
    IF ~pty THEN UNCHANGED ptyVars
    ELSE /\ kills' = Append(kills, sig)
         /\ killSent' = (killSent \/ child = "alive")
         /\ pty' = pty

\* killPty that clears the handle without a signal
KillPty_NoSignal(sig) ==
    IF ~pty THEN UNCHANGED ptyVars
    ELSE /\ kills' = kills
         /\ killSent' = killSent
         /\ pty' = FALSE

\* killPty(sig)
KillPty(sig) ==
    IF ~pty THEN UNCHANGED ptyVars
    ELSE /\ kills' = Append(kills, sig)
         /\ killSent' = (killSent \/ child = "alive")
         /\ pty' = FALSE

\* flush(callback) that runs the callback ahead of the queued writes
Flush_Sync(queue) == <<FLUSH>> \o queue

\* component.flush(callback): term.write("", callback) queues the callback
\* behind every chunk written before it.
Flush(queue) == Append(queue, FLUSH)

\* component.appendOutput(chunk): term.write(chunk)
AppendOutput(queue, chunk) == Append(queue, chunk)

\* The disposables the factory registers after a successful spawn.
Registered ==
    {"onData", "onExit"}
        \cup (IF hasTimeout THEN {"timer"} ELSE {})
        \cup (IF sigPresent THEN {"abort"} ELSE {})

\* Spawn-failure result that derives abortedBySignal from the signal, as
\* the exit handler does
SpawnFailureResult_FromSignal ==
    Result(NULL, <<SpawnFailure>>, <<>>, FALSE, FALSE, FALSE, sigAborted)

\* The result of the spawn-failure path.
SpawnFailureResult ==
    Result(NULL, <<SpawnFailure>>, <<>>, FALSE, FALSE, FALSE, FALSE)

\* ---------------------------------------------------------------------
\* Parameter validation in execute
\* ---------------------------------------------------------------------

\* A raw timeout: undefined, NaN, an infinity, or the finite number n / d.
RawUndefined == [kind |-> "undefined", n |-> 0, d |-> 1]
RawNaN == [kind |-> "NaN", n |-> 0, d |-> 1]
RawInfinity == [kind |-> "Infinity", n |-> 0, d |-> 1]
RawNegInfinity == [kind |-> "-Infinity", n |-> 0, d |-> 1]
Num(n, d) == [kind |-> "num", n |-> n, d |-> d]

\* clamp(value, min, max)
Clamp(value, min, max) == Max(min, Min(max, value))

\* Math.floor of the finite number n / d
Floor(raw) == raw.n \div raw.d

TimeoutUndefined == [kind |-> "undefined", v |-> 0, msg |-> ""]
TimeoutError(msg) == [kind |-> "error", v |-> 0, msg |-> msg]
TimeoutValue(v) == [kind |-> "value", v |-> v, msg |-> ""]

\* parseOptionalTimeout that floors without clamping
ParseOptionalTimeout_NoClamp(rawTimeout) ==
    IF rawTimeout.kind = "undefined" THEN TimeoutUndefined
    ELSE IF rawTimeout.kind # "num"
    THEN TimeoutError("timeout must be a finite number")
    ELSE IF rawTimeout.n <= 0
    THEN TimeoutError("timeout must be greater than 0 seconds")
    ELSE TimeoutValue(Floor(rawTimeout))

\* parseOptionalTimeout(rawTimeout)
ParseOptionalTimeout(rawTimeout) ==
    IF rawTimeout.kind = "undefined" THEN TimeoutUndefined
    ELSE IF rawTimeout.kind # "num"
    THEN TimeoutError("timeout must be a finite number")
    ELSE IF rawTimeout.n <= 0
    THEN TimeoutError("timeout must be greater than 0 seconds")
    ELSE TimeoutValue(Clamp(Floor(rawTimeout), 1, MAX_TIMEOUT_SECONDS))

\* The parameters execute may be entered with.  cwd is what stat reports of
\* the resolved directory.
ParamSet ==
    [hasUI : BOOLEAN,
     platform : {"linux", "win32"},
     cwd : {"dir", "missing", "file", "unreadable"},
     timeout : {RawUndefined, RawNaN, Num(0, 1), Num(3, 2)}]

Valid == [kind |-> "ok", msg |-> ""]
ToolError(msg) == [kind |-> "ToolError", msg |-> msg]

\* The checks of execute with the timeout left to be parsed later
ValidationError_NoTimeoutCheck(p) ==
    IF ~p.hasUI
    THEN ToolError("run_interactive_term requires interactive mode")
    ELSE IF p.platform = "win32"
    THEN ToolError("run_interactive_term is not supported on Windows")
    ELSE IF p.cwd = "missing"
    THEN ToolError("Working directory does not exist")
    ELSE IF p.cwd = "unreadable"
    THEN [kind |-> "rethrown", msg |-> "stat error"]
    ELSE IF p.cwd # "dir"
    THEN ToolError("Working directory is not a directory")
    ELSE Valid

\* The checks of execute ahead of context.ui.custom, in their order: the
\* first one that fails throws.
ValidationError(p) ==
    IF ~p.hasUI
    THEN ToolError("run_interactive_term requires interactive mode")
    ELSE IF p.platform = "win32"
    THEN ToolError("run_interactive_term is not supported on Windows")
    ELSE IF p.cwd = "missing"
    THEN ToolError("Working directory does not exist")
    ELSE IF p.cwd = "unreadable"
    THEN [kind |-> "rethrown", msg |-> "stat error"]
    ELSE IF p.cwd # "dir"
    THEN ToolError("Working directory is not a directory")
    ELSE IF ParseOptionalTimeout(p.timeout).kind = "error"
    THEN ToolError(ParseOptionalTimeout(p.timeout).msg)
    ELSE Valid

\* ---------------------------------------------------------------------
\* Initial state: execute is entered with its parameters and signal.
\* ---------------------------------------------------------------------
Init ==
    /\ pc = "entry"
    /\ outcome = "pending"
    /\ params \in ParamSet
    /\ call = NoCall
    /\ finalRender = FALSE
    /\ doneAt = NoDone
    /\ hasTimeout = FALSE
    /\ sigPresent \in BOOLEAN
    /\ sigAborted \in (IF sigPresent THEN BOOLEAN ELSE {FALSE})
    /\ abortedAtStart = sigAborted
    /\ cState = "running"
    /\ cExitCode = NULL
    /\ dismissedByUser = FALSE
    /\ timedOut = FALSE
    /\ finished = FALSE
    /\ pty = FALSE
    /\ disposables = {}
    /\ child = "none"
    /\ childCode = NULL
    /\ killSent = FALSE
    /\ exitDelivered = FALSE
    /\ exitSnap = NoSnap
    /\ termQueue = <<>>
    /\ termBuf = <<>>
    /\ disposed = FALSE
    /\ results = <<>>
    /\ kills = <<>>
    /\ writes = <<>>
    /\ appended = <<>>
    /\ inputLog = <<>>
    /\ timerFired = FALSE
    /\ abortKilled = FALSE
    /\ lastTurnData = FALSE

\* Every check passed: execute calls context.ui.custom.
ValidateOk ==
    /\ pc = "entry"
    /\ ValidationError(params).kind = "ok"
    /\ pc' = "init"
    /\ hasTimeout' = (ParseOptionalTimeout(params.timeout).kind = "value")
    /\ UNCHANGED <<outcome, sigPresent, params, call, ghostVars, sigVars,
                   compVars, flagVars, finVars, ptyVars, procVars, exitSnap,
                   termVars, disposed, writes, appended, inputLog,
                   timerFired>>

\* A check failed: execute throws.
ValidateFail ==
    /\ pc = "entry"
    /\ ValidationError(params).kind # "ok"
    /\ pc' = "invalid"
    /\ outcome' = ValidationError(params).kind
    /\ UNCHANGED <<cfgVars, ghostVars, sigVars, compVars, flagVars, finVars,
                   ptyVars, procVars, exitSnap, termVars, disposed, writes,
                   appended, inputLog, timerFired>>

\* ---------------------------------------------------------------------
\* The factory body
\* ---------------------------------------------------------------------

\* spawnPty succeeded: the callbacks are wired and the component returned.
StartSpawned ==
    /\ pc = "init"
    /\ pc' = "session"
    /\ pty' = TRUE
    /\ child' = "alive"
    /\ disposables' = Registered
    /\ UNCHANGED <<outcome, cfgVars, ghostVars, sigVars, compVars, flagVars, finished,
                   results, doneAt, kills, killSent, childCode, exitDelivered,
                   exitSnap, termVars, disposed, writes, appended, inputLog,
                   timerFired>>

\* spawnPty threw: the catch block.
StartSpawnFailed ==
    /\ pc = "init"
    /\ pc' = "failed"
    /\ Finish(SpawnFailureResult)
    /\ termQueue' = AppendOutput(termQueue, SpawnFailure)
    /\ cExitCode' = NULL
    /\ cState' = SetCompleteState(FALSE, FALSE)
    /\ finalRender' = TRUE
    /\ UNCHANGED <<outcome, cfgVars, ghostVars, sigVars, flagVars, ptyVars, procVars,
                   exitSnap, termBuf, disposed, writes, appended, inputLog,
                   timerFired>>

\* ---------------------------------------------------------------------
\* The child process and the PTY
\* ---------------------------------------------------------------------

\* The child exits on its own.
ChildExit(code) ==
    /\ child = "alive"
    /\ ~killSent
    /\ child' = "dead"
    /\ childCode' = code
    /\ UNCHANGED <<pc, outcome, cfgVars, ghostVars, sigVars, compVars, flagVars, finVars,
                   ptyVars, exitDelivered, exitSnap, termVars, disposed,
                   writes, appended, inputLog, timerFired>>

\* The child dies of the signal pty.kill sent.
ChildKilled(code) ==
    /\ child = "alive"
    /\ killSent
    /\ child' = "dead"
    /\ childCode' = code
    /\ UNCHANGED <<pc, outcome, cfgVars, ghostVars, sigVars, compVars, flagVars, finVars,
                   ptyVars, exitDelivered, exitSnap, termVars, disposed,
                   writes, appended, inputLog, timerFired>>

\* pty.onData(data => { component.appendOutput(data); tui.requestRender() })
PtyData(chunk) ==
    /\ "onData" \in disposables
    /\ ~exitDelivered
    /\ Len(appended) < MaxData
    /\ termQueue' = AppendOutput(termQueue, chunk)
    /\ appended' = Append(appended, chunk)
    /\ lastTurnData' = (lastTurnData \/ child = "dead")
    /\ UNCHANGED <<pc, outcome, cfgVars, sigVars, compVars, flagVars, finVars,
                   ptyVars, procVars, exitSnap, termBuf, disposed, writes,
                   inputLog, timerFired>>

\* Exit handler that forces the exit code to null after a dismiss too
PtyExit_NullOnDismiss ==
    /\ "onExit" \in disposables
    /\ child = "dead"
    /\ ~exitDelivered
    /\ exitDelivered' = TRUE
    /\ LET exitCode == IF timedOut \/ dismissedByUser THEN NULL ELSE childCode
           abortedBySignal == sigAborted /\ ~dismissedByUser /\ ~timedOut
       IN /\ exitSnap' = [set |-> TRUE, exitCode |-> exitCode,
                          abortedBySignal |-> abortedBySignal]
          /\ cExitCode' = exitCode
          /\ cState' = SetCompleteState(timedOut, dismissedByUser)
          /\ finalRender' = TRUE
    /\ termQueue' = Flush(termQueue)
    /\ UNCHANGED <<pc, outcome, cfgVars, ghostVars, sigVars, flagVars, finVars, ptyVars,
                   child, childCode, termBuf, disposed, writes, appended,
                   inputLog, timerFired>>

\* pty.onExit(e => { ... component.flush(() => { ... }) })
PtyExit ==
    /\ "onExit" \in disposables
    /\ child = "dead"
    /\ ~exitDelivered
    /\ exitDelivered' = TRUE
    /\ LET exitCode == IF timedOut THEN NULL ELSE childCode
           abortedBySignal == sigAborted /\ ~dismissedByUser /\ ~timedOut
       IN /\ exitSnap' = [set |-> TRUE, exitCode |-> exitCode,
                          abortedBySignal |-> abortedBySignal]
          /\ cExitCode' = exitCode
          /\ cState' = SetCompleteState(timedOut, dismissedByUser)
          /\ finalRender' = TRUE
    /\ termQueue' = Flush(termQueue)
    /\ UNCHANGED <<pc, outcome, cfgVars, ghostVars, sigVars, flagVars, finVars, ptyVars,
                   child, childCode, termBuf, disposed, writes, appended,
                   inputLog, timerFired>>

\* ---------------------------------------------------------------------
\* xterm's write buffer
\* ---------------------------------------------------------------------

\* xterm parses the next queued chunk into the buffer.
TermParse ==
    /\ ~disposed
    /\ Len(termQueue) > 0
    /\ Head(termQueue) # FLUSH
    /\ termBuf' = Append(termBuf, Head(termQueue))
    /\ termQueue' = Tail(termQueue)
    /\ UNCHANGED <<pc, outcome, cfgVars, ghostVars, sigVars, compVars, flagVars, finVars,
                   ptyVars, procVars, exitSnap, disposed, writes, appended,
                   inputLog, timerFired>>

\* The result the flush callback assembles from the buffer.
CaptureResult ==
    CHOOSE r \in
        {Result(exitSnap.exitCode,
                TruncateTail(sb.text, Len(sb.text), CAPTURE_MAX_BYTES),
                TruncateTail(snapshot, SCREEN_SNAPSHOT_MAX_LINES,
                             SCREEN_SNAPSHOT_MAX_BYTES),
                timedOut, dismissedByUser, sb.truncated,
                exitSnap.abortedBySignal)
           : snapshot \in {GetSnapshot(termBuf, SCREEN_SNAPSHOT_MAX_LINES)},
             sb \in {GetScrollback(termBuf, SCROLLBACK_MAX_LINES)}}
        : TRUE

\* xterm reaches the empty write queued by flush and runs its callback.
FlushCallback ==
    /\ ~disposed
    /\ Len(termQueue) > 0
    /\ Head(termQueue) = FLUSH
    /\ termQueue' = Tail(termQueue)
    /\ Finish(CaptureResult)
    /\ UNCHANGED <<pc, outcome, cfgVars, ghostVars, sigVars, compVars, flagVars, ptyVars,
                   procVars, exitSnap, termBuf, disposed, writes, appended,
                   inputLog, timerFired>>

\* ---------------------------------------------------------------------
\* Timer, abort signal, keystrokes, dispose
\* ---------------------------------------------------------------------

\* Timeout callback that also marks the overlay timed out
TimeoutFire_SetsState ==
    /\ "timer" \in disposables
    /\ ~timerFired
    /\ timerFired' = TRUE
    /\ IF finished
       THEN UNCHANGED <<timedOut, ptyVars, compVars>>
       ELSE /\ timedOut' = TRUE
            /\ cState' = "timed_out"
            /\ cExitCode' = NULL
            /\ finalRender' = finalRender
            /\ KillPty("SIGKILL")
    /\ UNCHANGED <<pc, outcome, cfgVars, ghostVars, sigVars, dismissedByUser,
                   finVars, procVars, exitSnap, termVars, disposed, writes,
                   appended, inputLog>>

\* Timeout callback that finalizes at once instead of waiting for the exit
TimeoutFire_Finishes ==
    /\ "timer" \in disposables
    /\ ~timerFired
    /\ timerFired' = TRUE
    /\ IF finished
       THEN UNCHANGED <<timedOut, ptyVars, finVars>>
       ELSE /\ timedOut' = TRUE
            /\ KillPty("SIGKILL")
            /\ Finish(Result(NULL, GetScrollback(termBuf, SCROLLBACK_MAX_LINES).text,
                             GetSnapshot(termBuf, SCREEN_SNAPSHOT_MAX_LINES),
                             TRUE, dismissedByUser, FALSE, FALSE))
    /\ UNCHANGED <<pc, outcome, cfgVars, ghostVars, sigVars, compVars,
                   dismissedByUser, procVars, exitSnap, termVars, disposed,
                   writes, appended, inputLog>>

\* setTimeout(() => { if (finished) return; timedOut = true; killPty("SIGKILL") })
TimeoutFire ==
    /\ "timer" \in disposables
    /\ ~timerFired
    /\ timerFired' = TRUE
    /\ IF finished
       THEN UNCHANGED <<timedOut, ptyVars>>
       ELSE /\ timedOut' = TRUE
            /\ KillPty("SIGKILL")
    /\ UNCHANGED <<pc, outcome, cfgVars, ghostVars, sigVars, compVars, dismissedByUser,
                   finVars, procVars, exitSnap, termVars, disposed, writes,
                   appended, inputLog>>

\* The signal aborts; onAbort runs if the listener is still registered.
AbortFire ==
    /\ pc \in {"session", "failed"}
    /\ sigPresent
    /\ ~sigAborted
    /\ sigAborted' = TRUE
    /\ IF "abort" \in disposables /\ ~finished
       THEN /\ KillPty("SIGKILL")
            /\ abortKilled' = (abortKilled \/ (pty /\ child = "alive"))
       ELSE UNCHANGED <<ptyVars, abortKilled>>
    /\ UNCHANGED <<pc, outcome, cfgVars, ghostVars, abortedAtStart, compVars, flagVars,
                   finVars, procVars, exitSnap, termVars, disposed, writes,
                   appended, inputLog, timerFired>>

\* The onDismiss handler given to setInputHandlers
OnDismiss ==
    IF pc # "session" \/ dismissedByUser
    THEN UNCHANGED <<dismissedByUser, ptyVars>>
    ELSE /\ dismissedByUser' = TRUE
         /\ KillPty("SIGKILL")

\* onInput without the test of the handle
OnInput_NoHandleCheck(data) ==
    IF pc # "session"
    THEN UNCHANGED writes
    ELSE writes' = Append(writes, data)

\* The onInput handler given to setInputHandlers
OnInput(data) ==
    IF pc # "session" \/ ~pty
    THEN UNCHANGED writes
    ELSE writes' = Append(writes, data)

\* handleInput without the escape interception
Route_NoEscape(state, data) ==
    IF state # "running" THEN "drop" ELSE "input"

\* handleInput without the not-running early return
Route_NoDrop(state, data) ==
    IF state = "running" /\ IsEscape(data) THEN "dismiss" ELSE "input"

\* handleInput(data): which handler the keystroke is routed to
Route(state, data) ==
    IF state = "running" /\ IsEscape(data) THEN "dismiss"
    ELSE IF state # "running" THEN "drop"
    ELSE "input"

\* component.handleInput(data)
HandleInput(data) ==
    /\ pc \in {"session", "failed"}
    /\ ~disposed
    /\ Len(inputLog) < MaxInputs
    /\ LET route == Route(cState, data)
       IN /\ inputLog' = Append(inputLog,
                [data |-> data, state |-> cState, route |-> route,
                 held |-> pty])
          /\ CASE route = "dismiss" -> OnDismiss /\ UNCHANGED writes
               [] route = "drop" -> UNCHANGED <<dismissedByUser, ptyVars, writes>>
               [] route = "input" -> OnInput(data) /\ UNCHANGED <<dismissedByUser, ptyVars>>
    /\ UNCHANGED <<pc, outcome, cfgVars, ghostVars, sigVars, compVars, timedOut, finVars,
                   procVars, exitSnap, termVars, disposed, appended,
                   timerFired>>

\* component.dispose(): the host closes the overlay once done() was called.
Dispose ==
    /\ Len(results) > 0
    /\ ~disposed
    /\ disposed' = TRUE
    /\ IF pc = "session" THEN KillPty("SIGKILL") ELSE UNCHANGED ptyVars
    /\ UNCHANGED <<pc, outcome, cfgVars, ghostVars, sigVars, compVars, flagVars, finVars,
                   procVars, exitSnap, termVars, writes, appended, inputLog,
                   timerFired>>

\* execute resumes after ui.custom resolved with the result.
ExecuteResume ==
    /\ outcome = "pending"
    /\ Len(results) > 0
    /\ outcome' = IF results[1].abortedBySignal THEN "ToolAbortError"
                  ELSE "returned"
    /\ UNCHANGED <<pc, cfgVars, ghostVars, sigVars, compVars, flagVars, finVars, ptyVars,
                   procVars, exitSnap, termVars, disposed, writes, appended,
                   inputLog, timerFired>>

Next ==
    \/ ValidateOk
    \/ ValidateFail
    \/ StartSpawned
    \/ StartSpawnFailed
    \/ \E code \in ExitCodes : ChildExit(code)
    \/ \E code \in ExitCodes : ChildKilled(code)
    \/ \E chunk \in Chunks : PtyData(chunk)
    \/ PtyExit
    \/ TermParse
    \/ FlushCallback
    \/ TimeoutFire
    \/ AbortFire
    \/ \E data \in Keys : HandleInput(data)
    \/ Dispose
    \/ ExecuteResume

Spec == Init /\ [][Next]_vars

\* The event loop runs every callback that is due, and a child that was
\* sent SIGKILL dies.
FairSpec ==
    /\ Spec
    /\ WF_vars(\E code \in ExitCodes : ChildKilled(code))
    /\ WF_vars(PtyExit)
    /\ WF_vars(TermParse)
    /\ WF_vars(FlushCallback)

\* ---------------------------------------------------------------------
\* Calls of the pure functions, each under a specification of its own:
\* no session is running, `call` holds the arguments and then the result.
\* ---------------------------------------------------------------------
Idle ==
    /\ pc = "entry"
    /\ outcome = "pending"
    /\ params = [hasUI |-> TRUE, platform |-> "linux", cwd |-> "dir",
                 timeout |-> RawUndefined]
    /\ finalRender = FALSE
    /\ doneAt = NoDone
    /\ hasTimeout = FALSE
    /\ sigPresent = FALSE
    /\ sigAborted = FALSE
    /\ abortedAtStart = FALSE
    /\ cState = "running"
    /\ cExitCode = NULL
    /\ dismissedByUser = FALSE
    /\ timedOut = FALSE
    /\ finished = FALSE
    /\ pty = FALSE
    /\ disposables = {}
    /\ child = "none"
    /\ childCode = NULL
    /\ killSent = FALSE
    /\ exitDelivered = FALSE
    /\ exitSnap = NoSnap
    /\ termQueue = <<>>
    /\ termBuf = <<>>
    /\ disposed = FALSE
    /\ results = <<>>
    /\ kills = <<>>
    /\ writes = <<>>
    /\ appended = <<>>
    /\ inputLog = <<>>
    /\ timerFired = FALSE
    /\ abortKilled = FALSE
    /\ lastTurnData = FALSE

\* The raw timeouts tried: the non-numbers, and the fractions n / d around
\* zero and around MAX_TIMEOUT_SECONDS.
RawTimeouts ==
    {RawUndefined, RawNaN, RawInfinity, RawNegInfinity}
        \cup {Num(n, d) : n \in -TimeoutSlack..(TimeoutSlack * MaxDen), d \in 1..MaxDen}
        \cup UNION {{Num(n, d) : n \in (MAX_TIMEOUT_SECONDS * d - TimeoutSlack)
                                        ..(MAX_TIMEOUT_SECONDS * d + TimeoutSlack)}
                      : d \in 1..MaxDen}

InitTimeout ==
    /\ Idle
    /\ call \in {[op |-> "parseOptionalTimeout", arg |-> r, done |-> FALSE,
                   ret |-> TimeoutUndefined] : r \in RawTimeouts}

\* execute calls parseOptionalTimeout(rawTimeout)
CallParseOptionalTimeout ==
    /\ call.op = "parseOptionalTimeout"
    /\ ~call.done
    /\ call' = [call EXCEPT !.done = TRUE,
                            !.ret = ParseOptionalTimeout(call.arg)]
    /\ UNCHANGED sessVars

NextTimeout == CallParseOptionalTimeout

SpecTimeout == InitTimeout /\ [][NextTimeout]_vars

\* The rows a child may leave in the buffer: empty, blank, text, and text
\* followed by a space.
RowAlphabet == {"", " ", "a", "b "}

RECURSIVE SeqsUpTo(_, _)
SeqsUpTo(S, n) ==
    IF n = 0 THEN {<<>>}
    ELSE LET shorter == SeqsUpTo(S, n - 1)
         IN shorter \cup {Append(q, x) : q \in {r \in shorter : Len(r) = n - 1}, x \in S}

\* The line caps tried.  The viewport never has more rows than the cap
\* (at most some hundred rows against 200 and 2000 lines).
LineCaps == TermRows..(TermRows + CapSlack)

InitCapture ==
    /\ Idle
    /\ call \in {[op |-> o, buf |-> b, maxLines |-> m, done |-> FALSE,
                   ret |-> [text |-> <<>>, truncated |-> FALSE]]
                   : o \in {"getScrollback", "getSnapshot"},
                     b \in SeqsUpTo(RowAlphabet, MaxBufLen),
                     m \in LineCaps}

\* the flush callback calls component.getScrollback(maxLines)
CallGetScrollback ==
    /\ call.op = "getScrollback"
    /\ ~call.done
    /\ call' = [call EXCEPT !.done = TRUE,
                            !.ret = GetScrollback(call.buf, call.maxLines)]
    /\ UNCHANGED sessVars

\* the flush callback calls component.getSnapshot(maxLines)
CallGetSnapshot ==
    /\ call.op = "getSnapshot"
    /\ ~call.done
    /\ call' = [call EXCEPT !.done = TRUE,
                            !.ret = [text |-> GetSnapshot(call.buf, call.maxLines),
                                     truncated |-> FALSE]]
    /\ UNCHANGED sessVars

NextCapture ==
    \/ CallGetScrollback
    \/ CallGetSnapshot

SpecCapture == InitCapture /\ [][NextCapture]_vars

\* ---------------------------------------------------------------------
\* xterm buffer -> ANSI renderer
\* ---------------------------------------------------------------------

\* A colour of a cell: default, a palette index, or 24-bit RGB.
DefaultColor == [mode |-> "default", value |-> -1]
Palette(n) == [mode |-> "palette", value |-> n]
Rgb(c) == [mode |-> "rgb", value |-> c]

\* The attributes of a cell that the renderer reads.
DefaultStyle ==
    [fg |-> DefaultColor, bg |-> DefaultColor, bold |-> FALSE, dim |-> FALSE,
     italic |-> FALSE, underline |-> FALSE, blink |-> FALSE, inverse |-> FALSE,
     strikethrough |-> FALSE, invisible |-> FALSE]

Styles ==
    {DefaultStyle,
     [DefaultStyle EXCEPT !.bold = TRUE],
     [DefaultStyle EXCEPT !.bold = TRUE, !.blink = TRUE],
     [DefaultStyle EXCEPT !.fg = Palette(1), !.bg = Rgb(66047), !.underline = TRUE],
     [DefaultStyle EXCEPT !.invisible = TRUE]}

\* cell.isAttributeDefault()
IsAttributeDefault(st) == st = DefaultStyle

\* An escape sequence ESC [ codes m, or a piece of text, put out when the
\* loop was at column x.
Esc(codes, x) == [t |-> "esc", codes |-> codes, chars |-> "", x |-> x]
Text(chars, x) == [t |-> "txt", codes |-> <<>>, chars |-> chars, x |-> x]

Bit(b) == IF b THEN 1 ELSE 0

\* the key "d"
DefaultKey ==
    [d |-> TRUE, fgMode |-> "default", fg |-> -1, bgMode |-> "default",
     bg |-> -1, flags |-> <<0, 0, 0, 0, 0, 0>>]

\* cellStyleKey(cell)
CellStyleKey(cell) ==
    LET st == cell.style
    IN IF IsAttributeDefault(st) THEN DefaultKey
       ELSE [d |-> FALSE, fgMode |-> st.fg.mode, fg |-> st.fg.value,
             bgMode |-> st.bg.mode, bg |-> st.bg.value,
             flags |-> <<Bit(st.bold), Bit(st.dim), Bit(st.italic),
                         Bit(st.underline), Bit(st.inverse),
                         Bit(st.strikethrough)>>]

\* The codes of a colour: 38 or 48, then 2;r;g;b or 5;n.
ColorCodes(base, c) ==
    IF c.mode = "rgb"
    THEN <<base, 2, (c.value \div 65536) % 256, (c.value \div 256) % 256,
           c.value % 256>>
    ELSE IF c.mode = "palette" THEN <<base, 5, c.value>>
    ELSE <<>>

\* cellSgr(cell): the parameters of the escape, in the order joined by ";"
CellSgr(cell) ==
    LET st == cell.style
    IN IF IsAttributeDefault(st) THEN <<0>>
       ELSE <<0>>
            \o (IF st.bold THEN <<1>> ELSE <<>>)
            \o (IF st.dim THEN <<2>> ELSE <<>>)
            \o (IF st.italic THEN <<3>> ELSE <<>>)
            \o (IF st.underline THEN <<4>> ELSE <<>>)
            \o (IF st.blink THEN <<5>> ELSE <<>>)
            \o (IF st.inverse THEN <<7>> ELSE <<>>)
            \o (IF st.strikethrough THEN <<9>> ELSE <<>>)
            \o ColorCodes(38, st.fg)
            \o ColorCodes(48, st.bg)

\* " ".repeat(w)
Spaces(w) == IF w > 1 THEN "  " ELSE " "

\* The text put out for a cell: its characters, or spaces when it has none
\* or is invisible.
CellChars(cell) ==
    IF cell.chars = "" \/ cell.style.invisible THEN Spaces(cell.w) ELSE cell.chars

\* The style escape is put out for every cell
NeedsSgr_Always(key, prevKey) == TRUE

\* if (key !== prevKey)
NeedsSgr(key, prevKey) == key # prevKey

\* The overflow test is missing
Overflows_Never(x, w, width) == FALSE

\* if (x + w > width)
Overflows(x, w, width) == x + w > width

\* if (prevKey !== "d") out += "\x1b[0m"; out += " "
Padding(out, prevKey, x) ==
    (IF prevKey # DefaultKey THEN Append(out, Esc(<<0>>, x)) ELSE out)
        \o <<Text(" ", x)>>

\* The loop of renderBufferLineAnsi from column x on (columns count from 0).
RECURSIVE RenderFrom(_, _, _, _, _)
RenderFrom(line, width, x, prevKey, out) ==
    IF x >= width THEN Append(out, Esc(<<0>>, x))
    ELSE IF x >= Len(line)
    THEN RenderFrom(line, width, x + 1, DefaultKey, Padding(out, prevKey, x))
    ELSE LET cell == line[x + 1]
             key == CellStyleKey(cell)
         IN IF cell.w <= 0 THEN RenderFrom(line, width, x + 1, prevKey, out)
            ELSE IF Overflows(x, cell.w, width)
            THEN RenderFrom(line, width, x + 1, DefaultKey, Padding(out, prevKey, x))
            ELSE RenderFrom(line, width, x + cell.w, key,
                     (IF NeedsSgr(key, prevKey)
                      THEN Append(out, Esc(CellSgr(cell), x)) ELSE out)
                         \o <<Text(CellChars(cell), x)>>)

\* renderBufferLineAnsi(line, nullCell, width)
RenderBufferLineAnsi(line, width) ==
    RenderFrom(line, width, 0, DefaultKey, <<Esc(<<0>>, 0)>>)

\* What xterm stores for one character: a cell with a character, a cell
\* never written to, or the two cells of a wide character.
Glyphs ==
    UNION {{<<[chars |-> "a", w |-> 1, style |-> st]>>,
            <<[chars |-> "", w |-> 1, style |-> st]>>,
            <<[chars |-> "W", w |-> 2, style |-> st],
              [chars |-> "", w |-> 0, style |-> st]>>} : st \in Styles}

RECURSIVE Concat(_)
Concat(gs) == IF gs = <<>> THEN <<>> ELSE Head(gs) \o Concat(Tail(gs))

\* The rows of cells a buffer line can hold.
BufferLines == {Concat(gs) : gs \in SeqsUpTo(Glyphs, MaxGlyphs)}

InitRender ==
    /\ Idle
    /\ call \in {[op |-> "renderBufferLineAnsi", line |-> l, width |-> w,
                   done |-> FALSE, ret |-> <<>>]
                   : l \in BufferLines, w \in 1..MaxWidth}

\* render calls renderBufferLineAnsi for a row of the viewport
CallRenderBufferLineAnsi ==
    /\ call.op = "renderBufferLineAnsi"
    /\ ~call.done
    /\ call' = [call EXCEPT !.done = TRUE,
                            !.ret = RenderBufferLineAnsi(call.line, call.width)]
    /\ UNCHANGED sessVars

NextRender == CallRenderBufferLineAnsi

SpecRender == InitRender /\ [][NextRender]_vars

\* ---------------------------------------------------------------------
\* Overlay frame
\* ---------------------------------------------------------------------

\* Math.floor(rows * 0.8) for a row count
Floor80(rows) == (rows * 8) \div 10

\* initialRows: size.rows (0 when absent) clamped to the terminal, else
\* about 80% of the terminal rows less the chrome.
InitialRows(hostRows, sizeRows) ==
    LET maxRows == Max(5, hostRows - 4)
    IN IF sizeRows # 0 THEN Clamp(sizeRows, 5, maxRows)
       ELSE Max(5, Floor80(hostRows) - 4)

\* One line of the frame; a content line stands for the boxed
\* renderBufferLineAnsi of buffer row y.
FramePart(part) == [part |-> part, y |-> -1]
ContentLine(y) == [part |-> "content", y |-> y]

\* render(width), with the terminal rows read through getTerminalRows, the
\* rows of the xterm terminal and its buffer's viewportY.
Render(hostRows, rows, viewportY) ==
    LET maxOverlayRows == Max(5, Floor80(hostRows))
        chromeRows == 4
        maxContentRows == Max(1, maxOverlayRows - chromeRows)
        startY == viewportY
        contentRows == Min(maxContentRows, rows)
        content == [row \in 1..contentRows |-> ContentLine(startY + row - 1)]
    IN <<FramePart("top"), FramePart("header")>>
           \o content
           \o <<FramePart("footer"), FramePart("bottom")>>

InitFrame ==
    /\ Idle
    /\ call \in {[op |-> "render", hostRows |-> h,
                   rows |-> Max(1, InitialRows(h0, sz)), viewportY |-> vy,
                   done |-> FALSE, ret |-> <<>>]
                   : h \in 1..MaxHostRows, h0 \in 1..MaxHostRows,
                     sz \in 0..MaxHostRows, vy \in 0..MaxViewportY}

\* the TUI calls component.render(width)
CallRender ==
    /\ call.op = "render"
    /\ ~call.done
    /\ call' = [call EXCEPT !.done = TRUE,
                            !.ret = Render(call.hostRows, call.rows, call.viewportY)]
    /\ UNCHANGED sessVars

NextFrame == CallRender

SpecFrame == InitFrame /\ [][NextFrame]_vars

\* ---------------------------------------------------------------------
\* Properties
\* ---------------------------------------------------------------------

\* The step handled a keystroke: handleInput ran on data d in state st.
Handled(d, st) ==
    /\ Len(inputLog') = Len(inputLog) + 1
    /\ inputLog'[Len(inputLog')].data = d
    /\ inputLog'[Len(inputLog')].state = st

States == {"running", "complete", "timed_out", "killed"}

\* C1: done(result) is invoked at most once per session; finished goes from
\* false to true exactly once, together with that one call, and never back;
\* once finished, no event delivers a second result or tears down again.
C1_FinishOnce ==
    /\ [](Len(results) <= 1 /\ (finished <=> Len(results) = 1))
    /\ [][finished => (finished' /\ results' = results
                         /\ disposables' = disposables)]_vars

\* C1 witness: the timer fired and the child exited on its own in the same
\* session, and exactly one result was delivered.
C1_Witness ==
    /\ finished /\ Len(results) = 1
    /\ timerFired /\ exitDelivered /\ ~killSent

\* C2: every result with timedOut = true has exitCode = null.
C2_TimeoutNullExit ==
    \A i \in 1..Len(results) :
        results[i].timedOut => results[i].exitCode = NULL

\* C3: on the process-exit path the result is assembled only when xterm
\* reaches the flush marker, with every chunk handed to appendOutput parsed:
\* scrollback and snapshot hold every line the child wrote, the last one last.
C3_CaptureAfterFlush ==
    /\ []((pc = "session" /\ Len(results) > 0) =>
            /\ results[1].scrollback = appended
            /\ results[1].screenSnapshot = appended)
    /\ [][(pc = "session" /\ results' # results) =>
            /\ Len(termQueue) > 0
            /\ Head(termQueue) = FLUSH
            /\ termBuf = appended]_vars

\* C3 witness: a chunk arrived in the same turn as the exit, after the child
\* died, and the result holds it as its last line.
C3_Witness ==
    /\ pc = "session" /\ Len(results) = 1
    /\ lastTurnData
    /\ Len(appended) >= 2
    /\ results[1].scrollback[Len(appended)] = appended[Len(appended)]

\* C4: escape pressed while the overlay is running: every result has
\* dismissedByUser = true, SIGKILL is issued if the handle is still held,
\* and the escape keystroke never reaches pty.write.
C4_DismissKills ==
    /\ []((\E i \in 1..Len(inputLog) :
              IsEscape(inputLog[i].data) /\ inputLog[i].state = "running")
            => \A r \in 1..Len(results) : results[r].dismissedByUser)
    /\ [](\A w \in 1..Len(writes) : ~IsEscape(writes[w]))
    /\ [][(Handled("esc", "running") /\ pty) =>
            (kills' = Append(kills, "SIGKILL") /\ ~pty')]_vars

\* C4 witness: a session dismissed by escape has delivered its result.
C4_Witness ==
    /\ Len(results) = 1
    /\ results[1].dismissedByUser
    /\ kills = <<"SIGKILL">>
    /\ \E i \in 1..Len(inputLog) :
          IsEscape(inputLog[i].data) /\ inputLog[i].state = "running"

\* C5 as stated: while running every non-escape input reaches pty.write;
\* once the state is not running every input is discarded.
C5_Original ==
    [][\A d \in Keys : \A st \in States :
          Handled(d, st) =>
            IF st = "running"
            THEN (~IsEscape(d) => writes' = Append(writes, d))
            ELSE /\ writes' = writes
                 /\ kills' = kills
                 /\ dismissedByUser' = dismissedByUser]_vars

\* C5 amended: while running every non-escape input is handed unchanged to
\* the input handler, which passes it to pty.write when the PTY handle is
\* still held and drops it otherwise; once the state is not running every
\* input, escape included, causes neither a write nor a dismiss.
C5_InputRouting ==
    [][\A d \in Keys : \A st \in States :
          Handled(d, st) =>
            IF st = "running"
            THEN ~IsEscape(d) =>
                    /\ pty => writes' = Append(writes, d)
                    /\ ~pty => writes' = writes
                    /\ kills' = kills
                    /\ dismissedByUser' = dismissedByUser
            ELSE /\ writes' = writes
                 /\ kills' = kills
                 /\ pty' = pty
                 /\ dismissedByUser' = dismissedByUser]_vars

\* C5 witness: a key typed while running after the handle was cleared, and
\* an escape pressed after the state left running with the handle held.
C5_Witness ==
    /\ \E i \in 1..Len(inputLog) :
          /\ inputLog[i].state = "running"
          /\ ~IsEscape(inputLog[i].data)
          /\ ~inputLog[i].held
    /\ \E i \in 1..Len(inputLog) :
          /\ inputLog[i].state # "running"
          /\ IsEscape(inputLog[i].data)

\* C6: the overlay state only moves from running to complete, timed_out or
\* killed; once it is not running it never changes again.
C6_StateMonotonic ==
    [][/\ cState' \in States
       /\ cState # "running" => cState' = cState]_vars

\* C6 witness: the state is final and a timeout, a dismiss attempt and an
\* abort came after it.
C6_Witness ==
    /\ cState = "complete"
    /\ timedOut
    /\ sigAborted /\ ~abortedAtStart
    /\ \E i \in 1..Len(inputLog) :
          IsEscape(inputLog[i].data) /\ inputLog[i].state = "complete"

C8_AbortKills ==
    /\ []((sigAborted /\ child = "alive") => "SIGKILL" \in {kills[i] : i \in 1..Len(kills)})
    /\ (sigAborted /\ child = "alive") ~> (finished /\ exitDelivered)

\* C9: when a result is delivered through done, the child is not alive:
\* either the PTY exit event was delivered or spawn failed and no process
\* exists.
C9_DeadAtDone ==
    Len(results) > 0 =>
        /\ child # "alive"
        /\ \/ exitDelivered /\ child = "dead"
           \/ pc = "failed" /\ child = "none"

\* C9 witness: a result was delivered for a child that was killed.
C9_Witness ==
    /\ Len(results) = 1
    /\ killSent /\ exitDelivered

\* C10: after a spawn failure exactly one result is delivered, with exit
\* code null, all flags false and the failure message as scrollback; nothing
\* is registered, the overlay state is complete and execute does not throw.
C10_SpawnFailure ==
    pc = "failed" =>
        /\ Len(results) = 1
        /\ results[1].exitCode = NULL
        /\ ~results[1].timedOut
        /\ ~results[1].dismissedByUser
        /\ ~results[1].scrollbackTruncated
        /\ ~results[1].abortedBySignal
        /\ results[1].scrollback = <<SpawnFailure>>
        /\ disposables = {}
        /\ ~timerFired /\ ~exitDelivered /\ appended = <<>>
        /\ kills = <<>> /\ ~abortKilled
        /\ cState = "complete"
        /\ outcome # "ToolAbortError"

\* C10 witness: spawn failed with a timeout configured and an aborted
\* signal, and execute returned normally.
C10_Witness ==
    /\ pc = "failed"
    /\ hasTimeout /\ sigAborted
    /\ outcome = "returned"

\* C11: on every finalize path, spawn failure included, the overlay state
\* is final and the re-render requested when done(result) is called.
C11_FinalStateBeforeDone ==
    doneAt.set => (doneAt.state # "running" /\ doneAt.rendered)

\* The parameters fail one of the validations: no UI, Windows, a missing or
\* non-directory cwd, a non-finite or non-positive timeout.
InvalidParams ==
    \/ ~params.hasUI
    \/ params.platform = "win32"
    \/ params.cwd \in {"missing", "file"}
    \/ params.timeout.kind \in {"NaN", "Infinity", "-Infinity"}
    \/ params.timeout.kind = "num" /\ params.timeout.n <= 0

\* C12: a validation failure is raised before the component is created and
\* before spawnPty is called: no PTY, timer, listener or terminal buffer
\* content ever exists, and execute ends with a ToolError (or with the
\* error of stat, when stat failed ahead of the failing check).
C12_ValidationFirst ==
    InvalidParams =>
        /\ pc \in {"entry", "invalid"}
        /\ pc = "invalid" =>
              outcome = (IF params.hasUI /\ params.platform = "linux"
                            /\ params.cwd = "unreadable"
                         THEN "rethrown" ELSE "ToolError")
        /\ child = "none" /\ ~pty
        /\ disposables = {} /\ ~timerFired
        /\ termQueue = <<>> /\ termBuf = <<>>
        /\ results = <<>>

\* C12 witness: the last check, the timeout, failed after all others passed.
C12_Witness ==
    /\ pc = "invalid"
    /\ outcome = "ToolError"
    /\ params.hasUI /\ params.platform = "linux" /\ params.cwd = "dir"
    /\ params.timeout.kind = "NaN"

\* C13: parseOptionalTimeout returns undefined for an absent timeout, fails
\* for a non-finite or non-positive one, and otherwise returns the integer
\* in [1, 3600] that is the floor of the input clamped to that range.
C13_TimeoutClamped ==
    (call.op = "parseOptionalTimeout" /\ call.done) =>
        LET raw == call.arg
            ret == call.ret
        IN CASE raw.kind = "undefined" -> ret.kind = "undefined"
             [] raw.kind \in {"NaN", "Infinity", "-Infinity"} -> ret.kind = "error"
             [] raw.kind = "num" /\ raw.n <= 0 -> ret.kind = "error"
             [] OTHER ->
                  /\ ret.kind = "value"
                  /\ ret.v \in 1..3600
                  /\ IF raw.n < raw.d THEN ret.v = 1
                     ELSE IF raw.n >= 3600 * raw.d THEN ret.v = 3600
                     ELSE ret.v * raw.d <= raw.n /\ raw.n < (ret.v + 1) * raw.d

\* The flush callback reads the snapshot and the scrollback from one buffer:
\* getSnapshot with the smaller cap, getScrollback with the larger one
\* (200 and 2000 lines at the call site).
InitBoth ==
    /\ Idle
    /\ call \in {[op |-> "capture", buf |-> b, snapLines |-> m, sbLines |-> n,
                   done |-> FALSE, snapshot |-> <<>>,
                   sb |-> [text |-> <<>>, truncated |-> FALSE]]
                   : b \in SeqsUpTo(RowAlphabet, MaxBufLen),
                     m \in LineCaps, n \in LineCaps}
    /\ call.snapLines <= call.sbLines

\* component.getSnapshot(...) and component.getScrollback(...) of the flush
\* callback
CallCapture ==
    /\ call.op = "capture"
    /\ ~call.done
    /\ call' = [call EXCEPT !.done = TRUE,
                            !.snapshot = GetSnapshot(call.buf, call.snapLines),
                            !.sb = GetScrollback(call.buf, call.sbLines)]
    /\ UNCHANGED sessVars

NextBoth == CallCapture

SpecBoth == InitBoth /\ [][NextBoth]_vars

\* C13 witness: a fraction below one second was raised to 1.
C13_Witness ==
    /\ call.op = "parseOptionalTimeout" /\ call.done
    /\ call.arg.kind = "num"
    /\ 0 < call.arg.n /\ call.arg.n < call.arg.d
    /\ call.ret.kind = "value" /\ call.ret.v = 1

\* A capture call has returned.
Captured == call.op \in {"getScrollback", "getSnapshot"} /\ call.done

\* The rows of the buffer with trailing whitespace removed, oldest first.
AllRows(buf) == RowTexts(buf, 0, TotalLines(buf) - 1)

\* C14: scrollbackTruncated is true exactly when the child produced more
\* lines than the cap passed to getScrollback (2000 at the call site).
C14_TruncatedIffOver ==
    (call.op = "getScrollback" /\ call.done) =>
        (call.ret.truncated <=> Len(call.buf) > call.maxLines)

\* C15: the lines returned by getScrollback and getSnapshot are the rows of
\* the window without its blank rows at both ends: no blank first or last
\* line, every row in between kept in order, nothing for an all-blank
\* buffer.
C15_BlankLinesTrimmed ==
    Captured =>
        LET rows == AllRows(call.buf)
            n == Len(rows)
            first == Max(1, n - call.maxLines + 1)
            out == call.ret.text
        IN /\ Len(out) > 0 => (RTrim(out[1]) # "" /\ RTrim(out[Len(out)]) # "")
           /\ (\A y \in first..n : rows[y] = "") => out = <<>>
           /\ \E i \in first..(n + 1) : \E j \in (i - 1)..n :
                /\ out = SubSeq(rows, i, j)
                /\ \A y \in first..(i - 1) : rows[y] = ""
                /\ \A y \in (j + 1)..n : rows[y] = ""

\* C15 witness: blank rows were cut at both ends and one was kept between
\* two lines.
C15_Witness ==
    /\ Captured
    /\ Len(call.buf) = 4
    /\ call.buf[1] = " " /\ call.buf[3] = ""
    /\ call.ret.text = <<"a", "", "b">>

\* C16: the captured lines are at most as many as the cap and are rows of
\* the window of that many rows ending at the last row of the buffer: no
\* older row, and no non-blank row after the last one returned.
C16_BoundedTailWindow ==
    Captured =>
        LET rows == AllRows(call.buf)
            n == Len(rows)
            out == call.ret.text
        IN /\ Len(out) <= call.maxLines
           /\ \E i \in 1..(n + 1) :
                /\ i >= n - call.maxLines + 1
                /\ i + Len(out) - 1 <= n
                /\ out = SubSeq(rows, i, i + Len(out) - 1)
                /\ \A y \in (i + Len(out))..n : rows[y] = ""

\* C16 witness: the buffer holds more rows than the cap and the oldest
\* line is not in the capture.
C16_Witness ==
    /\ Captured
    /\ call.op = "getSnapshot"
    /\ Len(call.buf) = call.maxLines + 1
    /\ call.buf[1] = "a" /\ call.buf[2] = "b "
    /\ Len(call.ret.text) = call.maxLines - 1
    /\ call.ret.text[1] = "a"

\* renderBufferLineAnsi has returned.
Rendered == call.op = "renderBufferLineAnsi" /\ call.done

\* The places of the text pieces in an output.
TxtIdx(out) == {k \in 1..Len(out) : out[k].t = "txt"}

\* The place of the text piece before place k, 0 if there is none.
PrevTxt(out, k) ==
    LET before == {p \in TxtIdx(out) : p < k}
    IN IF before = {} THEN 0 ELSE CHOOSE p \in before : \A q \in before : q <= p

\* The parameters of the last escape before place k: the SGR state the
\* text at k is displayed under, as every escape starts with a reset.
LastEsc(out, k) ==
    LET before == {e \in 1..(k - 1) : out[e].t = "esc"}
    IN out[CHOOSE e \in before : \A f \in before : f <= e].codes

\* Column x holds no cell that fits into the width: a space is put out.
IsPadding(line, width, x) ==
    x >= Len(line) \/ x + line[x + 1].w > width

\* The style key of what is put out for column x.
KeyAt(line, width, x) ==
    IF IsPadding(line, width, x) THEN DefaultKey ELSE CellStyleKey(line[x + 1])

\* The escape parameters cellSgr gives for what is put out for column x.
SgrAt(line, width, x) ==
    IF IsPadding(line, width, x) THEN <<0>> ELSE CellSgr(line[x + 1])

\* The escapes of an output between its leading and its final reset.
StyleEscapes(out) == {e \in 2..(Len(out) - 1) : out[e].t = "esc"}

\* The row fills the width and all its cells have one style.
Uniform(line, width) ==
    /\ Len(line) = width
    /\ \A x \in 1..Len(line) : line[x].style = line[1].style

\* C17 as stated: a row whose cells all share one style is put out with
\* exactly one style-change escape before the final reset.
C17_Original ==
    (Rendered /\ Uniform(call.line, call.width)) =>
        Cardinality(StyleEscapes(call.ret)) = 1

\* C17: the output starts and ends with a reset; before the text of a
\* column there is one escape if the style key of the column differs from
\* the key of the column put out before it (the default key at the start
\* and for padding) and none otherwise; so a row of one style has one style
\* escape if its key is not the default key and none if it is, however many
\* cells it has.
C17_StyleEscapes ==
    Rendered =>
        LET out == call.ret
            line == call.line
            width == call.width
        IN /\ out[1] = Esc(<<0>>, 0)
           /\ out[Len(out)].t = "esc" /\ out[Len(out)].codes = <<0>>
           /\ out[Len(out) - 1].t = "txt"
           /\ \A k \in TxtIdx(out) :
                LET p == PrevTxt(out, k)
                    prevKey == IF p = 0 THEN DefaultKey
                               ELSE KeyAt(line, width, out[p].x)
                    between == {e \in (p + 1)..(k - 1) : e # 1}
                IN Cardinality(between) =
                       IF KeyAt(line, width, out[k].x) # prevKey THEN 1 ELSE 0
           /\ Uniform(line, width) =>
                Cardinality(StyleEscapes(out)) =
                    IF CellStyleKey(line[1]) = DefaultKey THEN 0 ELSE 1

\* C17 witness: a row of three bold cells was put out with one style
\* escape.
C17_Witness ==
    /\ Rendered
    /\ Uniform(call.line, call.width)
    /\ Len(call.line) >= 3
    /\ \A x \in 1..Len(call.line) : call.line[x].w = 1
    /\ call.line[1].style.bold
    /\ Cardinality(StyleEscapes(call.ret)) = 1

\* C18: for a cell of width 2 at a column x with x + 2 > width, the output
\* holds for that column one space displayed in the default style and
\* nothing else.
C18_WideOverflowPadded ==
    Rendered =>
        \A x \in 0..(call.width - 1) :
            (x < Len(call.line) /\ call.line[x + 1].w = 2 /\ x + 2 > call.width) =>
                LET at == {k \in TxtIdx(call.ret) : call.ret[k].x = x}
                IN /\ Cardinality(at) = 1
                   /\ \A k \in at : /\ call.ret[k].chars = " "
                                    /\ LastEsc(call.ret, k) = <<0>>

\* C18 witness: a bold wide character began in the last column, after a
\* bold cell.
C18_Witness ==
    /\ Rendered
    /\ call.width = 2
    /\ Len(call.line) = 3
    /\ call.line[1].style.bold /\ call.line[1].chars = "a"
    /\ call.line[2].w = 2 /\ call.line[2].style.bold
    /\ Len(call.ret) = 6

\* C19: every text piece is displayed under the SGR state cellSgr gives
\* for its cell, and between two cells whose cellSgr differ there is an
\* escape.
C19_DisplayedUnderOwnSgr ==
    Rendered =>
        \A k \in TxtIdx(call.ret) :
            /\ LastEsc(call.ret, k) = SgrAt(call.line, call.width, call.ret[k].x)
            /\ LET p == PrevTxt(call.ret, k)
               IN (p # 0 /\ SgrAt(call.line, call.width, call.ret[p].x)
                             # SgrAt(call.line, call.width, call.ret[k].x))
                    => \E e \in (p + 1)..(k - 1) : call.ret[e].t = "esc"

\* C20: the frame has at most max(5, floor(0.8 * H)) lines: top border,
\* header, content window, footer, bottom border; and when the terminal
\* has more rows than the content window, the window holds the last rows of
\* the viewport.
C20_FrameShowsBottomRows ==
    (call.op = "render" /\ call.done) =>
        LET frame == call.ret
            n == Len(frame)
            window == n - 4
        IN /\ n <= Max(5, (call.hostRows * 8) \div 10)
           /\ n >= 5
           /\ frame[1].part = "top" /\ frame[2].part = "header"
           /\ frame[n - 1].part = "footer" /\ frame[n].part = "bottom"
           /\ \A k \in 3..(n - 2) : frame[k].part = "content"
           /\ call.rows > window =>
                \A k \in 1..window :
                    frame[2 + k].y = call.viewportY + call.rows - window + k - 1

\* ---------------------------------------------------------------------
\* PTY size
\* ---------------------------------------------------------------------

\* Math.floor(columns * 0.9) for a column count
Floor90(cols) == (cols * 9) \div 10

\* initialCols with the size clamp left out
InitialCols_NoClamp(hostCols, sizeCols) ==
    IF sizeCols # 0 THEN sizeCols
    ELSE Max(20, Floor90(hostCols) - 2)

\* initialCols: size.cols (0 when absent) clamped to the terminal, else
\* about 90% of the terminal columns less the borders.
InitialCols(hostCols, sizeCols) ==
    LET maxCols == Max(20, hostCols - 2)
    IN IF sizeCols # 0 THEN Clamp(sizeCols, 20, maxCols)
       ELSE Max(20, Floor90(hostCols) - 2)

InitSize ==
    /\ Idle
    /\ call \in {[op |-> "ptySize", hostCols |-> hc, hostRows |-> hr,
                   sizeCols |-> sc, sizeRows |-> sr, done |-> FALSE,
                   ret |-> [cols |-> 0, rows |-> 0]]
                   : hc \in 1..MaxHostCols, hr \in 1..MaxHostRows,
                     sc \in -1..(MaxHostCols + 1), sr \in -1..(MaxHostRows + 1)}

\* the factory computes initialCols and initialRows and hands them to
\* spawnPty
CallPtySize ==
    /\ call.op = "ptySize"
    /\ ~call.done
    /\ call' = [call EXCEPT !.done = TRUE,
                            !.ret = [cols |-> InitialCols(call.hostCols, call.sizeCols),
                                     rows |-> InitialRows(call.hostRows, call.sizeRows)]]
    /\ UNCHANGED sessVars

NextSize == CallPtySize

SpecSize == InitSize /\ [][NextSize]_vars

\* The PTY size has been computed.
Sized == call.op = "ptySize" /\ call.done

\* The size is within the clamp bounds and, without an override, the
\* default.
SizeInBounds ==
    /\ call.ret.cols >= 20
    /\ call.ret.cols <= Max(20, call.hostCols - 2)
    /\ call.ret.rows >= 5
    /\ call.ret.rows <= Max(5, call.hostRows - 4)
    /\ call.sizeCols = 0 =>
         call.ret.cols = Max(20, (call.hostCols * 9) \div 10 - 2)
    /\ call.sizeRows = 0 =>
         call.ret.rows = Max(5, (call.hostRows * 8) \div 10 - 4)

\* C21 as stated: the size is within the clamp bounds, is the default
\* without an override, and is never more than the host terminal has.
C21_Original ==
    Sized =>
        /\ SizeInBounds
        /\ call.ret.cols <= call.hostCols
        /\ call.ret.rows <= call.hostRows

\* C21: the size is within the clamp bounds and is the default without an
\* override; the PTY has no more columns than a host of 20 or more columns
\* and exactly 20 on a smaller one, and no more rows than a host of 5 or
\* more rows and exactly 5 on a smaller one.
C21_PtySize ==
    Sized =>
        /\ SizeInBounds
        /\ IF call.hostCols >= 20 THEN call.ret.cols <= call.hostCols
           ELSE call.ret.cols = 20
        /\ IF call.hostRows >= 5 THEN call.ret.rows <= call.hostRows
           ELSE call.ret.rows = 5

\* C21 witness: an override wider than the host terminal was cut to the
\* host's columns less the borders.
C21_Witness ==
    /\ Sized
    /\ call.hostCols >= 23
    /\ call.sizeCols > call.hostCols
    /\ call.ret.cols = call.hostCols - 2

\* ---------------------------------------------------------------------
\* Secret regex entries (strings are sequences of characters)
\* ---------------------------------------------------------------------

EntryChars == {"/", "\\", "a", "g", "i"}
ExtraFlagChars == {"g", "i"}

\* String.prototype.slice(start, end) with indices counted from 0
Slice(str, start, end) ==
    LET norm(k) == IF k < 0 THEN Max(Len(str) + k, 0) ELSE Min(k, Len(str))
        from == norm(start)
        to == norm(end)
    IN IF from < to THEN SubSeq(str, from + 1, to) ELSE <<>>

\* content.startsWith("/")
StartsWithSlash(content) == Len(content) > 0 /\ content[1] = "/"

\* A backslash never escapes
IsEscapeChar_Never(char) == FALSE

\* char === "\\"
IsEscapeChar(char) == char = "\\"

\* The loop of parseSecretRegex from index i on: the index of the closing
\* "/" or -1.
RECURSIVE FindPatternEnd(_, _, _)
FindPatternEnd(content, i, escaped) ==
    IF i >= Len(content) THEN -1
    ELSE LET char == content[i + 1]
         IN IF escaped THEN FindPatternEnd(content, i + 1, FALSE)
            ELSE IF IsEscapeChar(char) THEN FindPatternEnd(content, i + 1, TRUE)
            ELSE IF char = "/" THEN i
            ELSE FindPatternEnd(content, i + 1, FALSE)

\* The check for a missing closing "/" is left out
Unterminated_Never(patternEnd) == FALSE

\* patternEnd === -1
Unterminated(patternEnd) == patternEnd = -1

ParseError(msg) == [ok |-> FALSE, msg |-> msg, pattern |-> <<>>, flags |-> <<>>]
Parsed(pattern, flags) == [ok |-> TRUE, msg |-> "", pattern |-> pattern, flags |-> flags]

\* parseSecretRegex(content)
ParseSecretRegex(content) ==
    IF ~StartsWithSlash(content) THEN Parsed(content, <<>>)
    ELSE LET patternEnd == FindPatternEnd(content, 1, FALSE)
         IN IF Unterminated(patternEnd)
            THEN ParseError("unterminated regex literal")
            ELSE Parsed(Slice(content, 1, patternEnd),
                        Slice(content, patternEnd + 1, Len(content)))

\* flags.includes(c)
Includes(flags, c) == \E k \in 1..Len(flags) : flags[k] = c

\* "g" is appended whether or not it is there
EnforceGlobalFlag_Always(flags) == Append(flags, "g")

\* enforceGlobalFlag(flags)
EnforceGlobalFlag(flags) ==
    IF Includes(flags, "g") THEN flags ELSE Append(flags, "g")

\* deduplicateFlags(flags): [...new Set(flags)].join("")
RECURSIVE DeduplicateFlags(_)
DeduplicateFlags(flags) ==
    IF flags = <<>> THEN <<>>
    ELSE LET init == DeduplicateFlags(SubSeq(flags, 1, Len(flags) - 1))
             last == flags[Len(flags)]
         IN IF Includes(init, last) THEN init ELSE Append(init, last)

\* The flags the RegExp constructor accepts: known letters, none twice.
ValidFlags(flags) ==
    /\ \A k \in 1..Len(flags) : flags[k] \in {"d", "g", "i", "m", "s", "u", "v", "y"}
    /\ \A k, l \in 1..Len(flags) : flags[k] = flags[l] => k = l
    /\ ~(Includes(flags, "u") /\ Includes(flags, "v"))

\* The patterns over EntryChars the RegExp constructor accepts: all but
\* those ending in a backslash that escapes nothing.
RECURSIVE EndsEscaped(_, _, _)
EndsEscaped(pattern, i, escaped) ==
    IF i > Len(pattern) THEN escaped
    ELSE EndsEscaped(pattern, i + 1, ~escaped /\ pattern[i] = "\\")

ValidPattern(pattern) == ~EndsEscaped(pattern, 1, FALSE)

\* new RegExp(pattern, flags), or the error thrown in its place; called
\* tells whether the constructor was reached, entry is filled in by the
\* caller.
NewRegExp(pattern, flags) ==
    [kind |-> IF ValidPattern(pattern) /\ ValidFlags(flags) THEN "regex" ELSE "error",
     msg |-> IF ValidPattern(pattern) /\ ValidFlags(flags) THEN "" ELSE "SyntaxError",
     pattern |-> pattern, flags |-> flags, called |-> TRUE, entry |-> <<>>]

\* compileSecretRegex(content, extraFlags); an absent extraFlags is the
\* empty string, both being falsy.  entry keeps the flags parseSecretRegex
\* returned.
CompileSecretRegex(content, extraFlags) ==
    LET parsed == ParseSecretRegex(content)
    IN IF ~parsed.ok
       THEN [kind |-> "error", msg |-> parsed.msg, pattern |-> <<>>,
             flags |-> <<>>, called |-> FALSE, entry |-> <<>>]
       ELSE LET merged == IF extraFlags # <<>>
                          THEN DeduplicateFlags(parsed.flags \o extraFlags)
                          ELSE parsed.flags
            IN [NewRegExp(parsed.pattern, EnforceGlobalFlag(merged))
                    EXCEPT !.entry = parsed.flags]

InitRegex ==
    /\ Idle
    /\ call \in {[op |-> "compileSecretRegex", content |-> c, extraFlags |-> x,
                   done |-> FALSE,
                   ret |-> [kind |-> "none", msg |-> "", pattern |-> <<>>,
                            flags |-> <<>>, called |-> FALSE, entry |-> <<>>]]
                   : c \in SeqsUpTo(EntryChars, MaxEntryLen),
                     x \in SeqsUpTo(ExtraFlagChars, MaxExtraLen)}

\* a caller compiles a secret regex entry
CallCompileSecretRegex ==
    /\ call.op = "compileSecretRegex"
    /\ ~call.done
    /\ call' = [call EXCEPT !.done = TRUE,
                            !.ret = CompileSecretRegex(call.content, call.extraFlags)]
    /\ UNCHANGED sessVars

NextRegex == CallCompileSecretRegex

SpecRegex == InitRegex /\ [][NextRegex]_vars

\* compileSecretRegex has returned or thrown.
Compiled == call.op = "compileSecretRegex" /\ call.done

\* The number of backslashes in a row just before place k (counted from
\* 1), the leading "/" at place 1 excluded.
RECURSIVE BackslashesBefore(_, _)
BackslashesBefore(content, k) ==
    IF k > 2 /\ content[k - 1] = "\\"
    THEN 1 + BackslashesBefore(content, k - 1)
    ELSE 0

\* The places after the first of the "/" that no backslash escapes: those
\* with an even number of backslashes in a row before them.
UnescapedSlashes(content) ==
    {k \in 2..Len(content) :
        content[k] = "/" /\ BackslashesBefore(content, k) % 2 = 0}

\* The least of a non-empty set of numbers.
Least(S) == CHOOSE k \in S : \A l \in S : k <= l

\* C22: for an entry starting with "/" that has a closing "/", the pattern
\* handed to the regex is the text between the leading "/" and the first
\* unescaped "/", and the flags of the entry are all the text after it; an
\* entry not starting with "/" is the pattern as a whole, with no flags of
\* its own.
C22_LiteralParsed ==
    Compiled =>
        LET c == call.content
        IN IF ~StartsWithSlash(c)
           THEN /\ call.ret.called
                /\ call.ret.pattern = c
                /\ call.ret.entry = <<>>
           ELSE UnescapedSlashes(c) # {} =>
                LET e == Least(UnescapedSlashes(c))
                IN /\ call.ret.called
                   /\ call.ret.pattern = SubSeq(c, 2, e - 1)
                   /\ call.ret.entry = SubSeq(c, e + 1, Len(c))

\* C22 witness: an entry with an escaped "/" in the pattern and a flag.
C22_Witness ==
    /\ Compiled
    /\ call.content = <<"/", "\\", "/", "/", "i">>
    /\ call.ret.pattern = <<"\\", "/">>
    /\ call.ret.entry = <<"i">>
    /\ call.ret.kind = "regex"

\* The provided flags: the flags of the entry, and with extraFlags every
\* flag of both once, in the order of first appearance.
IsMerged(merged, entryFlags, extraFlags) ==
    LET all == entryFlags \o extraFlags
    IN IF extraFlags = <<>> THEN merged = entryFlags
       ELSE /\ \A k, l \in 1..Len(merged) : merged[k] = merged[l] => k = l
            /\ {merged[k] : k \in 1..Len(merged)} = {all[k] : k \in 1..Len(all)}
            /\ \A k, l \in 1..Len(merged) :
                 k < l => \E m \in 1..Len(all) :
                            /\ all[m] = merged[k]
                            /\ \A n \in 1..m : all[n] # merged[l]

\* C23: the flags handed to the regex contain "g": they are the provided
\* flags when these contain "g", and the provided flags followed by "g"
\* when they do not.
C23_GlobalFlag ==
    (Compiled /\ call.ret.called) =>
        LET passed == call.ret.flags
            entry == call.ret.entry
        IN /\ Includes(passed, "g")
           /\ \/ /\ IsMerged(passed, entry, call.extraFlags)
              \/ /\ passed[Len(passed)] = "g"
                 /\ ~Includes(SubSeq(passed, 1, Len(passed) - 1), "g")
                 /\ IsMerged(SubSeq(passed, 1, Len(passed) - 1), entry,
                             call.extraFlags)

\* C23 witness: flags without "g" got it at the end, after the merge with
\* extraFlags.
C23_Witness ==
    /\ Compiled
    /\ call.content = <<"/", "a", "/", "i">>
    /\ call.extraFlags = <<"i">>
    /\ call.ret.flags = <<"i", "g">>
    /\ call.ret.kind = "regex"

\* C24: the error is "unterminated regex literal" exactly for an entry
\* that starts with "/" and has no later unescaped "/", and then the regex
\* constructor is not reached.
C24_Unterminated ==
    Compiled =>
        LET unterminated == /\ StartsWithSlash(call.content)
                            /\ UnescapedSlashes(call.content) = {}
        IN /\ (call.ret.kind = "error" /\ call.ret.msg = "unterminated regex literal")
                <=> unterminated
           /\ unterminated => ~call.ret.called

\* C24 witness: the only later "/" of the entry is escaped.
C24_Witness ==
    /\ Compiled
    /\ call.content = <<"/", "a", "\\", "/">>
    /\ call.ret.msg = "unterminated regex literal"
    /\ ~call.ret.called

\* C25: pty.kill is called at most once: once the handle of the session
\* is cleared it stays cleared, and a killPty call calls nothing, whoever
\* makes it.
C25_KillOnce ==
    [][/\ Len(kills') <= 1
       /\ (pc = "session" /\ ~pty) => (kills' = kills /\ ~pty')]_vars

\* C25 witness: timeout, dismiss and dispose all called killPty and one
\* pty.kill was made.
C25_Witness ==
    /\ timedOut
    /\ dismissedByUser
    /\ disposed
    /\ Len(kills) = 1

\* C26: with the handle cleared no keystroke is passed to pty.write, and a
\* pty.write to a child that has exited, which throws, changes nothing of
\* the session but the record of the keystroke and of the call.
C26_WriteAfterKill ==
    [][/\ ~pty => writes' = writes
       /\ (writes' # writes /\ child = "dead") =>
            UNCHANGED <<pc, outcome, compVars, flagVars, finVars, ptyVars,
                        procVars, exitSnap, termVars, disposed, sigVars>>]_vars

\* C26 witness: a key was typed after the dismiss while the overlay was
\* still running and nothing was written.
C26_Witness ==
    /\ Len(inputLog) = 2
    /\ inputLog[1].route = "dismiss"
    /\ inputLog[2].route = "input"
    /\ inputLog[2].state = "running"
    /\ ~inputLog[2].held
    /\ writes = <<>>

\* C27: once the timeout has fired or the user has dismissed in a running
\* session, one CaptureResult is eventually delivered, with timedOut true
\* if the timeout has fired, and never a second one.
C27_KillLeadsToResult ==
    /\ (pc = "session" /\ (timedOut \/ dismissedByUser))
          ~> (Len(results) = 1 /\ (timedOut => results[1].timedOut))
    /\ [](Len(results) <= 1)

\* C27 witness: the timer fired while the child was alive and the result
\* of the session reports the timeout.
C27_Witness ==
    /\ timedOut
    /\ kills = <<"SIGKILL">>
    /\ killSent
    /\ Len(results) = 1
    /\ results[1].timedOut
    /\ ~results[1].dismissedByUser

C29_SingleReason ==
    \A r \in 1..Len(results) :
        /\ ~(results[r].timedOut /\ results[r].dismissedByUser)
        /\ ~(results[r].timedOut /\ results[r].abortedBySignal)
        /\ ~(results[r].dismissedByUser /\ results[r].abortedBySignal)

\* C30: once a result is delivered, the overlay is timed_out exactly when
\* the result reports a timeout, killed exactly when it reports a dismiss
\* and no timeout, complete otherwise, and shows the exit code of the
\* result.
C30_StateMatchesResult ==
    Len(results) > 0 =>
        /\ cState = (IF results[1].timedOut THEN "timed_out"
                     ELSE IF results[1].dismissedByUser THEN "killed"
                     ELSE "complete")
        /\ cExitCode = results[1].exitCode

\* C31: a result reports abortedBySignal, and execute throws
\* ToolAbortError, only if the abort handler issued the kill on a running
\* child.
C31_AbortedOnlyByHandler ==
    /\ \A r \in 1..Len(results) : results[r].abortedBySignal => abortKilled
    /\ outcome = "ToolAbortError" => abortKilled

\* C32: for every buffer content the lines of the snapshot are a suffix of
\* the lines of the scrollback: the snapshot holds no line that the
\* scrollback lacks.
C32_SnapshotSuffix ==
    (call.op = "capture" /\ call.done) =>
        LET snap == call.snapshot
            sb == call.sb.text
        IN /\ Len(snap) <= Len(sb)
           /\ snap = SubSeq(sb, Len(sb) - Len(snap) + 1, Len(sb))

\* C32 witness: the buffer has more rows than the snapshot cap, the
\* scrollback starts with a line the snapshot window no longer holds, and
\* blank rows were cut at the end of both.
C32_Witness ==
    /\ call.op = "capture" /\ call.done
    /\ Len(call.buf) = MaxBufLen
    /\ call.snapLines = TermRows /\ call.sbLines > call.snapLines
    /\ call.buf[1] = "a" /\ call.buf[MaxBufLen] = " "
    /\ Len(call.snapshot) > 0
    /\ Len(call.sb.text) > Len(call.snapshot)
    /\ call.sb.text[1] = "a"

\* ---------------------------------------------------------------------
\* wrapRequestOptions (natives/request-options.ts): one request, its
\* promise, its timer and its abort listener.  `call` holds the arguments
\* and the state of the closures.
\* ---------------------------------------------------------------------

\* What fn does when it is invoked: its promise is fulfilled later, is
\* rejected later, or fn throws before it returns a promise.  A promise
\* that never settles is the behaviour in which FnCompletes never happens.
FnModes == {"resolves", "rejects", "throws"}

\* options?.timeoutMs: absent, negative, zero, positive
TimeoutMsChoices == {-1, 0, 1}

\* resolve(value) / reject(reason) of a promise: only the first call
\* settles it.
SettlePromise(c, v) ==
    IF c.promise = "pending" THEN [c EXCEPT !.promise = v] ELSE c

\* fn() is invoked.  A throw inside the executor of new Promise, or inside
\* the async function, rejects the promise with the error thrown.
InvokeFn(c) ==
    IF c.fnMode = "throws"
    THEN SettlePromise([c EXCEPT !.fnCalls = @ + 1], "fnError")
    ELSE [c EXCEPT !.fnCalls = @ + 1, !.fnPending = TRUE]

\* The value or the error the promise of fn settles with
FnOutcome(c) == IF c.fnMode = "resolves" THEN "value" ELSE "fnError"

\* cleanup(): clearTimeout and removeEventListener
Cleanup(c) == [c EXCEPT !.timerArmed = FALSE, !.listener = FALSE]

\* settle(ok, value)
Settle(c, v) ==
    IF c.settled THEN c
    ELSE SettlePromise([Cleanup(c) EXCEPT !.settled = TRUE], v)

\* withAbortSignal(fn, signal) up to the return of the executor
WithAbortSignal(c) ==
    InvokeFn([c EXCEPT !.path = "abortOnly", !.listener = TRUE])

\* withTimeoutAndOptionalAbort(fn, timeoutMs, signal) up to the return of
\* the executor
WithTimeoutAndOptionalAbort(c) ==
    InvokeFn([c EXCEPT !.path = "timeout", !.timerArmed = TRUE,
                       !.listener = c.hasSignal])

\* wrapRequestOptions(fn, options) up to its return
WrapRequestOptions(c) ==
    LET timeoutMs == IF c.hasTimeoutMs THEN c.timeoutMs ELSE 0
    IN IF ~c.hasSignal /\ timeoutMs <= 0 THEN InvokeFn([c EXCEPT !.path = "fast"])
       ELSE IF c.hasSignal /\ c.aborted
            THEN SettlePromise([c EXCEPT !.path = "aborted"], "abort")
       ELSE IF c.hasSignal /\ timeoutMs <= 0 THEN WithAbortSignal(c)
       ELSE WithTimeoutAndOptionalAbort(c)

InitRequest ==
    /\ Idle
    /\ call \in {[op |-> "wrapRequestOptions", fnMode |-> m,
                   hasTimeoutMs |-> h, timeoutMs |-> t,
                   hasSignal |-> s, aborted |-> a, abortedAtCall |-> a,
                   done |-> FALSE, path |-> "none", fnCalls |-> 0,
                   fnPending |-> FALSE, timerArmed |-> FALSE,
                   listener |-> FALSE, settled |-> FALSE,
                   promise |-> "pending", events |-> <<>>]
                   : m \in FnModes, h \in BOOLEAN, t \in TimeoutMsChoices,
                     s \in BOOLEAN, a \in BOOLEAN}
    /\ call.aborted => call.hasSignal
    /\ ~call.hasTimeoutMs => call.timeoutMs = 0

\* The caller invokes wrapRequestOptions
CallWrapRequestOptions ==
    /\ call.op = "wrapRequestOptions"
    /\ ~call.done
    /\ call' = [WrapRequestOptions(call) EXCEPT !.done = TRUE]
    /\ UNCHANGED sessVars

\* The promise of fn settles and its reaction runs: the promise of the
\* fast path adopts it; v => {removeEventListener; resolve(v)} or the err
\* twin in withAbortSignal; v => settle(true, v) or err => settle(false, err)
\* in withTimeoutAndOptionalAbort.
FnCompletes ==
    /\ call.op = "wrapRequestOptions"
    /\ call.fnPending
    /\ LET c == [call EXCEPT !.fnPending = FALSE,
                             !.events = Append(@, "fn")]
       IN call' = IF c.path = "timeout" THEN Settle(c, FnOutcome(c))
                  ELSE IF c.path = "abortOnly"
                       THEN SettlePromise([c EXCEPT !.listener = FALSE], FnOutcome(c))
                  ELSE SettlePromise(c, FnOutcome(c))
    /\ UNCHANGED sessVars

\* The timer set by setTimeout expires and its callback runs
TimerExpires ==
    /\ call.op = "wrapRequestOptions"
    /\ call.timerArmed
    /\ call' = Settle([call EXCEPT !.timerArmed = FALSE,
                                   !.events = Append(@, "timeout")],
                      "timeout")
    /\ UNCHANGED sessVars

\* The signal is aborted after the call; a listener registered with
\* {once: true} is removed and onAbort runs.
SignalAborts ==
    /\ call.op = "wrapRequestOptions"
    /\ call.done
    /\ call.hasSignal
    /\ ~call.aborted
    /\ LET c == [call EXCEPT !.aborted = TRUE, !.listener = FALSE,
                             !.events = Append(@, "abort")]
       IN call' = IF ~call.listener THEN c
                  ELSE IF c.path = "timeout" THEN Settle(c, "abort")
                  ELSE SettlePromise(c, "abort")
    /\ UNCHANGED sessVars

NextRequest ==
    \/ CallWrapRequestOptions
    \/ FnCompletes
    \/ TimerExpires
    \/ SignalAborts

SpecRequest == InitRequest /\ [][NextRequest]_vars

\* The outcome that belongs to an event of a request
EventOutcome(c, e) ==
    IF e = "fn" THEN FnOutcome(c)
    ELSE IF e = "timeout" THEN "timeout"
    ELSE "abort"

\* The request is settled as the claim says: with the outcome of the first
\* event, timer cleared and listener removed, and fn not invoked for a
\* signal that was aborted at the call.
RequestSettledRight(c) ==
    /\ (c.done /\ c.abortedAtCall) => (c.fnCalls = 0 /\ c.promise = "abort")
    /\ (c.done /\ ~c.abortedAtCall /\ c.events # <<>>) =>
            c.promise = EventOutcome(c, c.events[1])
    /\ c.promise # "pending" => (~c.timerArmed /\ ~c.listener)

\* C33: the promise of wrapRequestOptions settles once, with the outcome
\* of the first of fn completion, timeout expiry and abort; later events
\* do not change it; at settlement the timer is cleared and the abort
\* listener removed; fn is not invoked for an already aborted signal.
C33_SettlesOnce ==
    [][/\ call.promise # "pending" => call'.promise = call.promise
       /\ RequestSettledRight(call')]_vars

\* ---------------------------------------------------------------------
\* OutputSink (core/streaming-output.ts): pushes that may overlap.  Each
\* call of #pushSanitized is a task that runs up to its next await; the
\* continuation of an await is a job of the microtask queue (`ready`,
\* first in first out), or waits for the file sink (`waiting`) when
\* sink.write returned a pending promise.
\* ---------------------------------------------------------------------

\* The sanitized chunks handed to #pushSanitized
PushChunks == {"", "a", "bc", "def"}

\* options.spillThreshold
Thresholds == 0..MaxThreshold

\* s.slice(-n): the last n characters, and the whole string for n = 0
\* because -0 is 0
SliceTail(s, n) ==
    IF n = 0 \/ Len(s) <= n THEN s ELSE SubSeq(s, Len(s) - n + 1, Len(s))

\* await of sink.write(...): the task continues as a microtask when write
\* returned a number, and after the sink has written when it returned a
\* promise.
Await(c, id, pending) ==
    IF pending THEN [c EXCEPT !.waiting = Append(@, id)]
    ELSE [c EXCEPT !.ready = Append(@, id)]

InitSink ==
    /\ Idle
    /\ call \in {[op |-> "OutputSink", spillThreshold |-> t, buffer |-> "",
                   hasFile |-> FALSE, file |-> "", pushed |-> "",
                   tasks |-> <<>>, ready |-> <<>>, waiting |-> <<>>,
                   dumped |-> FALSE, truncated |-> FALSE, output |-> ""]
                   : t \in Thresholds}

\* push(chunk) -> #pushSanitized(data) up to its first await; #fileSink()
\* up to its await when the file does not exist yet.
PushSanitized(data, pending) ==
    /\ call.op = "OutputSink"
    /\ ~call.dumped
    /\ Len(call.tasks) < MaxPushes
    /\ LET id == Len(call.tasks) + 1
           bufferOverflow == Len(data) + Len(call.buffer) > call.spillThreshold
           overflow == call.hasFile \/ bufferOverflow
           task(at) == [data |-> data, bufferOverflow |-> bufferOverflow, pc |-> at]
           c == [call EXCEPT !.pushed = @ \o data]
       IN /\ pending => (overflow /\ ~call.hasFile)
          /\ call' =
            IF overflow /\ ~call.hasFile
            THEN Await([c EXCEPT !.hasFile = TRUE, !.file = call.buffer,
                                 !.tasks = Append(@, task("fileSinkWrite"))],
                       id, pending)
            ELSE IF overflow
            THEN [c EXCEPT !.tasks = Append(@, task("awaitSink")),
                           !.ready = Append(@, id)]
            ELSE [c EXCEPT !.buffer = @ \o data,
                           !.tasks = Append(@, task("awaitWrite")),
                           !.ready = Append(@, id)]
    /\ UNCHANGED sessVars

\* The continuation of task id
Continue(c, id, pending) ==
    LET t == c.tasks[id]
    IN IF t.pc = "fileSinkWrite"
       THEN [c EXCEPT !.tasks[id].pc = "awaitSink", !.ready = Append(@, id)]
       ELSE IF t.pc = "awaitSink"
       THEN Await([c EXCEPT !.buffer = @ \o t.data, !.file = @ \o t.data,
                            !.tasks[id].pc = "awaitWrite"],
                  id, pending)
       ELSE [c EXCEPT !.buffer = IF t.bufferOverflow
                                 THEN SliceTail(@, c.spillThreshold) ELSE @,
                      !.tasks[id].pc = "done"]

\* The first job of the microtask queue runs
RunMicrotask(pending) ==
    /\ call.op = "OutputSink"
    /\ call.ready # <<>>
    /\ LET id == Head(call.ready)
       IN /\ pending => call.tasks[id].pc = "awaitSink"
          /\ call' = Continue([call EXCEPT !.ready = Tail(@)], id, pending)
    /\ UNCHANGED sessVars

\* The sink has written: the promise of the oldest pending write is
\* fulfilled, once the microtask queue is empty.
WriteCompletes ==
    /\ call.op = "OutputSink"
    /\ call.ready = <<>>
    /\ call.waiting # <<>>
    /\ call' = [call EXCEPT !.waiting = Tail(@), !.ready = <<Head(call.waiting)>>]
    /\ UNCHANGED sessVars

\* dump() once every push has returned
Dump ==
    /\ call.op = "OutputSink"
    /\ ~call.dumped
    /\ \A id \in 1..Len(call.tasks) : call.tasks[id].pc = "done"
    /\ call' = [call EXCEPT !.dumped = TRUE,
                            !.truncated = call.hasFile,
                            !.output = IF call.hasFile THEN "..." \o call.buffer
                                       ELSE call.buffer]
    /\ UNCHANGED sessVars

NextSink ==
    \/ \E data \in PushChunks, pending \in BOOLEAN : PushSanitized(data, pending)
    \/ \E pending \in BOOLEAN : RunMicrotask(pending)
    \/ WriteCompletes
    \/ Dump

SpecSink == InitSink /\ [][NextSink]_vars

\* t is a suffix of s
IsSuffix(t, s) ==
    /\ Len(t) <= Len(s)
    /\ t = SubSeq(s, Len(s) - Len(t) + 1, Len(s))

\* C34: after any pushes, overlapping ones included, the buffer is a
\* suffix of the concatenation of the pushed chunks and at most
\* spillThreshold characters long; dump reports truncated exactly when
\* more than spillThreshold characters were pushed, and then the spill
\* file holds every pushed chunk in order.
C34_BufferIsTail ==
    (call.op = "OutputSink" /\ call.dumped) =>
        /\ IsSuffix(call.buffer, call.pushed)
        /\ Len(call.buffer) <= call.spillThreshold
        /\ call.truncated <=> Len(call.pushed) > call.spillThreshold
        /\ call.truncated => call.file = call.pushed

====
